---- MODULE Spec2Model ----
(***************************************************************************)
(* rfid-db-tool: the record list (a Tk treeview), the serial session and   *)
(* the binary request/answer protocol of src/rfid-db-tool.py.              *)
(*                                                                         *)
(* Text is a sequence of one-character strings, bytes are sequences of     *)
(* 0..255, a 32-bit value is a pair of 16-bit halves [hi, lo] (the values  *)
(* of the protocol do not fit the model checker's integers).               *)
(***************************************************************************)
EXTENDS Integers, Sequences, FiniteSets, TLC

VARIABLES
    tree,              \* self.tree: the rows of the treeview, in display order
    serial,            \* self.serial: [obj |-> FALSE] is None
    serial_connected,  \* self.serial_connected
    pc,                \* "idle", or "streaming" inside the chunk loop of the write handler
    count,             \* local count of tree_popup_menu_write_handler (0 outside it)
    i,                 \* local i of tree_popup_menu_write_handler (0 outside it)
    wire,              \* what the running (or last) handler did on the serial link
    dialog,            \* the message box the running (or last) handler showed, if any
    last,              \* the last handler call: its inputs and its result
    data_txt           \* the file data.txt as the save handler of this run left it

vars == <<tree, serial, serial_connected, pc, count, i, wire, dialog, last, data_txt>>

----------------------------------------------------------------------------
(* Configuration options and protocol constants, App.__init__ *)

PACKET_MAX_COUNT == 32

DEVICES_COUNT_MAX == 65535

Word(hi, lo) == [hi |-> hi, lo |-> lo]

COMMAND_PINGPONG   == Word(205 * 256 + 0, 0)
ANSWER_PINGPONG    == Word(220 * 256 + 0, 0)
COMMAND_WRITECOUNT == Word(205 * 256 + 1, 0)
ANSWER_WRITECOUNT  == Word(220 * 256 + 1, 0)
COMMAND_WRITEDATA  == Word(205 * 256 + 2, 0)
ANSWER_WRITEDATA   == Word(220 * 256 + 2, 0)
COMMAND_READLAST   == Word(205 * 256 + 3, 0)
ANSWER_READLAST    == Word(220 * 256 + 3, 0)

----------------------------------------------------------------------------
(* Python and Tk library operations the handlers call *)

\* COMMAND + n on Python integers, n >= 0
AddWord(w, n) ==
    LET s == w.lo + n
    IN  Word(w.hi + (s \div 65536), s % 65536)

\* struct.pack('<I', w): the bytes in little-endian order
PackI_LittleEndian(w) ==
    << w.lo % 256, w.lo \div 256, w.hi % 256, (w.hi \div 256) % 256 >>

\* struct.pack('>I', w)
PackI(w) ==
    << (w.hi \div 256) % 256, w.hi % 256, w.lo \div 256, w.lo % 256 >>

\* struct.unpack('>I', b): a 1-tuple holding the value; struct.error unless len(b) = 4
UnpackI(b) ==
    IF Len(b) = 4
    THEN [ok |-> TRUE,
          value |-> [kind |-> "tuple",
                     items |-> << Word(b[1] * 256 + b[2], b[3] * 256 + b[4]) >>]]
    ELSE [ok |-> FALSE, value |-> [kind |-> "tuple", items |-> << >>]]

PyInt(w) == [kind |-> "int", items |-> << w >>]

\* Python's == : a tuple is never equal to an int
PyEq(a, b) == a.kind = b.kind /\ a.items = b.items

DecDigits == {"0", "1", "2", "3", "4", "5", "6", "7", "8", "9"}

HexDigits == DecDigits \cup {"a", "b", "c", "d", "e", "f", "A", "B", "C", "D", "E", "F"}

Whitespace == {" ", "\r", "\n", "\t"}

HexVal(c) ==
    CASE c = "0" -> 0  [] c = "1" -> 1  [] c = "2" -> 2  [] c = "3" -> 3
      [] c = "4" -> 4  [] c = "5" -> 5  [] c = "6" -> 6  [] c = "7" -> 7
      [] c = "8" -> 8  [] c = "9" -> 9
      [] c \in {"a", "A"} -> 10  [] c \in {"b", "B"} -> 11
      [] c \in {"c", "C"} -> 12  [] c \in {"d", "D"} -> 13
      [] c \in {"e", "E"} -> 14  [] c \in {"f", "F"} -> 15

HexChar(n) ==
    << "0", "1", "2", "3", "4", "5", "6", "7",
       "8", "9", "a", "b", "c", "d", "e", "f" >>[n + 1]

\* bytes.fromhex(s) from position k on: whitespace between the bytes is skipped,
\* anything but pairs of hex digits raises ValueError
RECURSIVE FromHexFrom(_, _)
FromHexFrom(s, k) ==
    IF k > Len(s) THEN [ok |-> TRUE, bytes |-> << >>]
    ELSE IF s[k] \in Whitespace THEN FromHexFrom(s, k + 1)
    ELSE IF k + 1 > Len(s) \/ s[k] \notin HexDigits \/ s[k + 1] \notin HexDigits
    THEN [ok |-> FALSE, bytes |-> << >>]
    ELSE LET r == FromHexFrom(s, k + 2)
         IN  [ok |-> r.ok,
              bytes |-> << HexVal(s[k]) * 16 + HexVal(s[k + 1]) >> \o r.bytes]

FromHex(s) == FromHexFrom(s, 1)

\* bytes.hex()
RECURSIVE BytesHex(_)
BytesHex(b) ==
    IF b = << >> THEN << >>
    ELSE << HexChar(b[1] \div 16), HexChar(b[1] % 16) >> \o BytesHex(Tail(b))

\* str.zfill(width) of a text without sign
RECURSIVE ZFill(_, _)
ZFill(s, width) == IF Len(s) >= width THEN s ELSE ZFill(<< "0" >> \o s, width)

\* str.rstrip()
RECURSIVE RStrip(_)
RStrip(s) ==
    IF s # << >> /\ s[Len(s)] \in Whitespace THEN RStrip(SubSeq(s, 1, Len(s) - 1)) ELSE s

RECURSIVE LStrip(_)
LStrip(s) == IF s # << >> /\ s[1] \in Whitespace THEN LStrip(Tail(s)) ELSE s

RECURSIVE StripZeros(_)
StripZeros(s) == IF Len(s) > 1 /\ s[1] = "0" THEN StripZeros(Tail(s)) ELSE s

\* int(s) succeeds: blanks around an optional sign and decimal digits
Unsigned(s) == IF s # << >> /\ s[1] \in {"+", "-"} THEN Tail(s) ELSE s

IsIntLiteral(s) ==
    LET t == Unsigned(LStrip(RStrip(s)))
    IN  t # << >> /\ \A k \in 1..Len(t) : t[k] \in DecDigits

\* str(int(s))
IntStr(s) ==
    LET u == LStrip(RStrip(s))
        d == StripZeros(Unsigned(u))
    IN  IF u[1] = "-" /\ d # << "0" >> THEN << "-" >> \o d ELSE d

\* ttk._convert_stringval: a value that reads as an integer comes back as an int
ConvertStringval(s) ==
    IF IsIntLiteral(s) THEN [kind |-> "int", s |-> IntStr(s)]
    ELSE [kind |-> "str", s |-> s]

\* str(v) of a value Tk handed back
PyStr(v) == v.s

----------------------------------------------------------------------------
(* The treeview.  A row is [iid, hex, text]: iid is the item id Tk keeps (the *)
(* decimal text of the identifier, here the identifier itself), hex and text  *)
(* are the two values of the row as they were given to Tk.  The children of   *)
(* the treeview are tree.bulk rows that were loaded from data.txt lines of    *)
(* the form "0a<6 hex digits of k>,x" (k = 1, 2, ..), kept as their number,   *)
(* followed by the rows of tree.rows.                                         *)

NoItem == [some |-> FALSE, iid |-> Word(0, 0)]

Item(iid) == [some |-> TRUE, iid |-> iid]

Row(iid, hex, text) == [iid |-> iid, hex |-> hex, text |-> text]

\* n as hex digits, at least width of them
RECURSIVE HexText(_, _)
HexText(n, width) ==
    IF width <= 1 /\ n < 16 THEN << HexChar(n) >>
    ELSE HexText(n \div 16, width - 1) \o << HexChar(n % 16) >>

\* the identifier field of the k-th generated line
BulkHex(k) == << "0", "a" >> \o HexText(k, 6)

\* the row insert_data_item makes of the k-th generated line
BulkRow(k) == Row(Word(2560 + (k \div 65536), k % 65536), BulkHex(k), << "x" >>)

Tree(bulk, rows) == [bulk |-> bulk, rows |-> rows]

\* len(tree.get_children())
TreeLen(t) == t.bulk + Len(t.rows)

\* tree.get_children()[k - 1]
TreeAt(t, k) == IF k <= t.bulk THEN BulkRow(k) ELSE t.rows[k - t.bulk]

\* the children written out row by row
Children(t) == [k \in 1..TreeLen(t) |-> TreeAt(t, k)]

\* the number of the generated row with this iid, 0 if there is none
BulkNumber(t, iid) ==
    LET k == (iid.hi - 2560) * 65536 + iid.lo
    IN  IF iid.hi >= 2560 /\ iid.hi < 2816 /\ k >= 1 /\ k <= t.bulk THEN k ELSE 0

\* a treeview that does not keep its item ids unique
TreeExists_Never(t, iid) == FALSE

\* tree.exists(iid)
TreeExists(t, iid) ==
    BulkNumber(t, iid) > 0 \/ \E k \in 1..Len(t.rows) : t.rows[k].iid = iid

\* an edit that puts the row back at the end of the list
TreeIndex_End(t, iid) == TreeLen(t)

\* tree.index(iid), counted from 0; TclError when the item does not exist
TreeIndex(t, iid) ==
    IF BulkNumber(t, iid) > 0 THEN BulkNumber(t, iid) - 1
    ELSE t.bulk + (CHOOSE k \in 1..Len(t.rows) : t.rows[k].iid = iid) - 1

RemoveAt(rows, k) == SubSeq(rows, 1, k - 1) \o SubSeq(rows, k + 1, Len(rows))

\* tree.delete(iid)
TreeDelete(t, iid) ==
    IF BulkNumber(t, iid) > 0
    THEN Tree(0, RemoveAt(Children(t), BulkNumber(t, iid)))
    ELSE Tree(t.bulk, RemoveAt(t.rows, TreeIndex(t, iid) + 1 - t.bulk))

\* an insert that overwrites the last row instead of appending
InsertAt_Overwrite(rows, n, row) ==
    IF rows = << >> THEN << row >>
    ELSE IF n >= Len(rows) THEN [rows EXCEPT ![Len(rows)] = row]
    ELSE [rows EXCEPT ![n + 1] = row]

InsertAt(rows, n, row) ==
    IF n >= Len(rows) THEN Append(rows, row)
    ELSE SubSeq(rows, 1, n) \o << row >> \o SubSeq(rows, n + 1, Len(rows))

\* tree.insert(parent='', index=n, ...): n counted from 0, past the end means 'end';
\* the caller has checked that the iid is free (Tk raises TclError otherwise)
TreeInsertAt(t, n, row) ==
    IF n >= t.bulk THEN Tree(t.bulk, InsertAt(t.rows, n - t.bulk, row))
    ELSE Tree(0, InsertAt(Children(t), n, row))

\* tree.item(item)['values']: both values pass through ttk._convert_stringval
TreeItemValues(row) == << ConvertStringval(row.hex), ConvertStringval(row.text) >>

\* the item id Tk derives from iid=data_id, a 1-tuple
TkIid(data_id) == data_id.items[1]

----------------------------------------------------------------------------
(* App.insert_data_item and App.load_data_from_file *)

\* position of the first comma of a line, 0 if it has none
FirstComma(line) ==
    IF \E k \in 1..Len(line) : line[k] = ","
    THEN CHOOSE k \in 1..Len(line) :
            line[k] = "," /\ \A m \in 1..(k - 1) : line[m] # ","
    ELSE 0

insert_data_item(t, line) ==
    LET c == FirstComma(line)
        data_id_hex == RStrip(SubSeq(line, 1, c - 1))
        data_text == RStrip(SubSeq(line, c + 1, Len(line)))
        b == FromHex(data_id_hex)
        u == UnpackI(b.bytes)
    IN  IF c = 0 THEN t
        ELSE IF ~b.ok \/ ~u.ok THEN t
        ELSE IF TreeExists(t, TkIid(u.value)) THEN t
        ELSE TreeInsertAt(t, TreeLen(t), Row(TkIid(u.value), data_id_hex, data_text))

\* the treeview t after insert_data_item took the lines from the k-th on, one
\* after the other; each turn of the loop works on the treeview the turn before
\* it left (insert_data_item never takes a row away)
RECURSIVE load_lines(_, _, _)
load_lines(t, lines, k) ==
    IF k > Len(lines) THEN t
    ELSE LET next == insert_data_item(t, lines[k])
         IN  IF TreeLen(next) >= TreeLen(t) THEN load_lines(next, lines, k + 1)
             ELSE next

\* the treeview after load_data_from_file read these lines (no file: no lines)
load_data_from_file(lines) == load_lines(Tree(0, << >>), lines, 1)

----------------------------------------------------------------------------
(* App.tree_confirm_entry: the result and the treeview it leaves *)

DataIdIsZero(data_id) == PyEq(data_id, PyInt(Word(0, 0)))

tree_confirm_entry(t, item, data_id_hex, data_text) ==
    LET b == FromHex(data_id_hex)
        u == UnpackI(b.bytes)
        data_id == u.value
        removed == IF item.some THEN TreeDelete(t, item.iid) ELSE t
        current_index == IF item.some THEN TreeIndex(t, item.iid) ELSE TreeLen(t)
    IN  IF data_id_hex = << >> \/ Len(data_id_hex) # 8 \/ data_text = << >>
        THEN [ret |-> FALSE, tree |-> t]
        ELSE IF ~b.ok \/ ~u.ok THEN [ret |-> FALSE, tree |-> t]
        ELSE IF DataIdIsZero(data_id) THEN [ret |-> FALSE, tree |-> t]
        ELSE IF item.some /\ ~TreeExists(t, item.iid) THEN [ret |-> FALSE, tree |-> t]
        ELSE IF TreeExists(removed, TkIid(data_id)) THEN [ret |-> FALSE, tree |-> removed]
        ELSE [ret |-> TRUE,
              tree |-> TreeInsertAt(removed, current_index,
                                    Row(TkIid(data_id), data_id_hex, data_text))]

----------------------------------------------------------------------------
(* The serial link.  A write either goes out whole or raises; a read of 4     *)
(* bytes returns what arrived within SERIAL_TIMEOUT_S (4 bytes or fewer) or   *)
(* raises.  What the device does is an input of each handler.                 *)

\* a session whose serial_set_disconnected leaves the port object in place
NoSerial_LeftOpen == [obj |-> TRUE, is_open |-> TRUE]

NoSerial == [obj |-> FALSE, is_open |-> FALSE]

OpenSerial == [obj |-> TRUE, is_open |-> TRUE]

SerialUsable(s) == s.obj /\ s.is_open

\* one event per call of serial.write or serial.read; what tells a request frame
\* from the identifier bytes of a chunk
Written(b) == [ev |-> "write", what |-> "request", bytes |-> b]

WrittenId(b) == [ev |-> "write", what |-> "id", bytes |-> b]

WriteRaised == [ev |-> "write_error", what |-> "", bytes |-> << >>]

ReadGot(b) == [ev |-> "read", what |-> "", bytes |-> b]

ReadRaised == [ev |-> "read_error", what |-> "", bytes |-> << >>]

\* a comparison that takes the bytes that arrived for the whole answer
AnswerMatches_Prefix(answer, expected) == answer = SubSeq(expected, 1, Len(answer))

\* answer != expected_answer
AnswerMatches(answer, expected) == answer = expected

\* the same frame with its parameter one lower (low byte)
LowerParam(f) == << f[1], f[2], f[3], (f[4] + 255) % 256 >>

\* what a read(4) can return when `expected` is awaited: the answer, an answer
\* with another parameter, or the 2 bytes that arrived before the timeout
DeviceAnswers(expected) ==
    { expected, LowerParam(expected), SubSeq(expected, 1, 2) }

\* what the link does during one request/answer exchange: the write raises
\* (wfail), the read raises (raise), or the read returns bytes
LinkOutcomes(expected) ==
    { [wfail |-> TRUE, raise |-> FALSE, bytes |-> << >>],
      [wfail |-> FALSE, raise |-> TRUE, bytes |-> << >>] }
    \cup { [wfail |-> FALSE, raise |-> FALSE, bytes |-> b] : b \in DeviceAnswers(expected) }

\* what the read of the 4 bytes after the read-last answer can do
LastIdReads ==
    { [raise |-> TRUE, bytes |-> << >>],
      [raise |-> FALSE, bytes |-> << 0, 0, 18, 52 >>],
      [raise |-> FALSE, bytes |-> << 18, 52 >>],
      [raise |-> FALSE, bytes |-> << >>] }

\* serial.write(request) then serial.read(4): the events, and whether the
\* answer read is the expected one
Exchange(request, expected, rd) ==
    IF rd.wfail THEN [ok |-> FALSE, raised |-> TRUE, wire |-> << WriteRaised >>]
    ELSE IF rd.raise
    THEN [ok |-> FALSE, raised |-> TRUE, wire |-> << Written(request), ReadRaised >>]
    ELSE [ok |-> AnswerMatches(rd.bytes, expected), raised |-> FALSE,
          wire |-> << Written(request), ReadGot(rd.bytes) >>]

NoDialog == [kind |-> "none", message |-> "", detail |-> "", n |-> -1]

ShowError(message, detail) ==
    [kind |-> "error", message |-> message, detail |-> detail, n |-> -1]

ShowInfo(message, n) == [kind |-> "info", message |-> message, detail |-> "", n |-> n]

\* the last handler call: op names the handler, ret is its result (for the write
\* handler its local result, for read_last whether it returned what it read), item,
\* hex and text are the inputs (hex is the default of read_last, text the port of
\* connect), out is the text read_last returned
Last(op, ret, item, hex, text, out) ==
    [op |-> op, ret |-> ret, item |-> item, hex |-> hex, text |-> text, out |-> out]

----------------------------------------------------------------------------
(* App.serial_protocol_check on an open port *)

\* a handshake that does not look at the answer
serial_protocol_check_AnyAnswer(rd) ==
    [Exchange(PackI(COMMAND_PINGPONG), PackI(ANSWER_PINGPONG), rd) EXCEPT !.ok = TRUE]

serial_protocol_check(rd) ==
    Exchange(PackI(COMMAND_PINGPONG), PackI(ANSWER_PINGPONG), rd)

(* App.serial_connect_disconnect_handler, with serial_set_connected and       *)
(* serial_set_disconnected.  port is the text of the combo box, openOk tells  *)
(* whether serial.Serial(...) opens the port.                                 *)
serial_connect_disconnect_handler(port, openOk, rd) ==
    /\ pc = "idle"
    /\ UNCHANGED <<tree, pc, data_txt>>
    /\ count' = 0
    /\ i' = 0
    /\ IF port = << >>
       THEN /\ dialog' = ShowError("Please choose a Serial Port", "")
            /\ wire' = << >>
            /\ last' = Last("connect", FALSE, NoItem, << >>, port, << >>)
            /\ UNCHANGED <<serial, serial_connected>>
       ELSE IF serial_connected
       THEN \* serial_set_disconnected
            /\ serial_connected' = FALSE
            /\ serial' = NoSerial
            /\ dialog' = NoDialog
            /\ wire' = << >>
            /\ last' = Last("disconnect", TRUE, NoItem, << >>, port, << >>)
       ELSE IF ~openOk
       THEN \* serial.Serial raised: serial_set_disconnected
            /\ serial_connected' = FALSE
            /\ serial' = NoSerial
            /\ dialog' = NoDialog
            /\ wire' = << >>
            /\ last' = Last("connect", FALSE, NoItem, << >>, port, << >>)
       ELSE LET check == serial_protocol_check(rd)
            IN  /\ serial_connected' = check.ok
                /\ serial' = IF check.ok THEN OpenSerial ELSE NoSerial
                /\ dialog' = NoDialog
                /\ wire' = check.wire
                /\ last' = Last("connect", check.ok, NoItem, << >>, port, << >>)

\* the text of the serial port combo box
Ports == { << >>, << "C", "O", "M", "1" >> }

Connect ==
    \E port \in Ports, openOk \in BOOLEAN, rd \in LinkOutcomes(PackI(ANSWER_PINGPONG)) :
        serial_connect_disconnect_handler(port, openOk, rd)

----------------------------------------------------------------------------
(* App.read_last_id_handler *)

\* data_id.hex().zfill(8)
LastIdText(b) == ZFill(BytesHex(b), 8)

\* a read-last handler that lists the identifier it read as a record
read_last_id_handler_Listing(default, rd, rd2) ==
    /\ pc = "idle"
    /\ SerialUsable(serial)
    /\ ~rd.wfail /\ ~rd.raise /\ ~rd2.raise
    /\ tree' = TreeInsertAt(tree, TreeLen(tree),
                            Row(Word(0, 0), LastIdText(rd2.bytes), << "x" >>))
    /\ wire' = << Written(PackI(COMMAND_READLAST)), ReadGot(rd.bytes), ReadGot(rd2.bytes) >>
    /\ last' = Last("read_last", TRUE, NoItem, default, << >>, LastIdText(rd2.bytes))
    /\ dialog' = NoDialog
    /\ count' = 0
    /\ i' = 0
    /\ UNCHANGED <<serial, serial_connected, pc, data_txt>>

read_last_id_handler(default, rd, rd2) ==
    /\ pc = "idle"
    /\ UNCHANGED <<tree, serial, serial_connected, pc, data_txt>>
    /\ count' = 0
    /\ i' = 0
    /\ dialog' = NoDialog
    /\ IF ~SerialUsable(serial)
       THEN /\ wire' = << >>
            /\ last' = Last("read_last", FALSE, NoItem, default, << >>, default)
       ELSE LET x == Exchange(PackI(COMMAND_READLAST), PackI(ANSWER_READLAST), rd)
            IN  IF ~x.ok
                THEN /\ wire' = x.wire
                     /\ last' = Last("read_last", FALSE, NoItem, default, << >>, default)
                ELSE IF rd2.raise
                THEN /\ wire' = x.wire \o << ReadRaised >>
                     /\ last' = Last("read_last", FALSE, NoItem, default, << >>, default)
                ELSE /\ wire' = x.wire \o << ReadGot(rd2.bytes) >>
                     /\ last' = Last("read_last", TRUE, NoItem, default, << >>,
                                     LastIdText(rd2.bytes))

----------------------------------------------------------------------------
(* App.tree_popup_menu_write_handler.  The handler blocks the event loop, so  *)
(* no other handler runs while it is in its chunk loop (pc = "streaming").    *)

\* a count validation that is off by one
TooMuchData_OffByOne(cnt) == cnt > DEVICES_COUNT_MAX + 1

\* line 297
TooMuchData(cnt) == cnt > DEVICES_COUNT_MAX

\* lines 315-318
CurrentCount(cnt, k) ==
    IF cnt - k > PACKET_MAX_COUNT THEN PACKET_MAX_COUNT ELSE cnt - k

\* a loop that steps by one record instead of one chunk
\* a loop that never advances
NextI_Stuck(k, current_count) == k

NextI_One(k, current_count) == k + 1

\* line 335
NextI(k, current_count) == k + current_count

\* lines 323-326 for j, j+1, .. n-1: the identifier writes of one chunk; wFail is
\* the number (from 1) of the serial.write call of this chunk that raises, -1 if none
RECURSIVE SendIds(_, _, _, _, _)
SendIds(children, k, j, n, wFail) ==
    IF j >= n THEN [err |-> "", wire |-> << >>]
    ELSE LET values == TreeItemValues(TreeAt(children, k + j + 1))
             request == FromHex(PyStr(values[1]))
         IN  IF ~request.ok THEN [err |-> "ValueError", wire |-> << >>]
             ELSE IF wFail = j + 1
             THEN [err |-> "SerialException", wire |-> << WriteRaised >>]
             ELSE LET rest == SendIds(children, k, j + 1, n, wFail)
                  IN  [err |-> rest.err,
                       wire |-> << WrittenId(request.bytes) >> \o rest.wire]

\* a failed upload that shows nothing
WriteFailed_Silent(result_txt) ==
    /\ pc' = "idle"
    /\ dialog' = NoDialog
    /\ last' = Last("write", FALSE, NoItem, << >>, << >>, << >>)

\* lines 340-343
WriteFailed(result_txt) ==
    /\ pc' = "idle"
    /\ dialog' = ShowError("Communication error: ", result_txt)
    /\ last' = Last("write", FALSE, NoItem, << >>, << >>, << >>)

WriteDone(cnt) ==
    /\ pc' = "idle"
    /\ dialog' = ShowInfo("Written lines", cnt)
    /\ last' = Last("write", TRUE, NoItem, << >>, << >>, << >>)

\* lines 286-313: the checks and the write-count exchange
tree_popup_menu_write_handler(rd) ==
    /\ pc = "idle"
    /\ UNCHANGED <<tree, serial, serial_connected, data_txt>>
    /\ i' = 0
    /\ IF ~SerialUsable(serial)
       THEN /\ dialog' = ShowError("No connection", "")
            /\ last' = Last("write", FALSE, NoItem, << >>, << >>, << >>)
            /\ wire' = << >>
            /\ count' = 0
            /\ pc' = "idle"
       ELSE IF TooMuchData(TreeLen(tree))
       THEN /\ dialog' = ShowError("Too much data", "")
            /\ last' = Last("write", FALSE, NoItem, << >>, << >>, << >>)
            /\ wire' = << >>
            /\ count' = TreeLen(tree)
            /\ pc' = "idle"
       ELSE LET x == Exchange(PackI(AddWord(COMMAND_WRITECOUNT, TreeLen(tree))),
                              PackI(AddWord(ANSWER_WRITECOUNT, TreeLen(tree))), rd)
            IN  /\ count' = TreeLen(tree)
                /\ wire' = x.wire
                /\ IF x.raised THEN WriteFailed("SerialException")
                   ELSE IF ~x.ok THEN WriteFailed("")
                   ELSE IF 0 < TreeLen(tree)
                   THEN /\ pc' = "streaming"
                        /\ dialog' = NoDialog
                        /\ last' = Last("write", TRUE, NoItem, << >>, << >>, << >>)
                   ELSE WriteDone(TreeLen(tree))

\* lines 314-335: one turn of the while loop
tree_write_chunk(wFail, rd) ==
    /\ pc = "streaming"
    /\ UNCHANGED <<tree, serial, serial_connected, count, data_txt>>
    /\ LET current_count == CurrentCount(count, i)
           request == PackI(AddWord(COMMAND_WRITEDATA, current_count))
           expected_answer == PackI(AddWord(ANSWER_WRITEDATA, current_count))
           ids == SendIds(tree, i, 0, current_count, wFail)
       IN  IF wFail = 0
           THEN /\ wire' = wire \o << WriteRaised >>
                /\ i' = i
                /\ WriteFailed("SerialException")
           ELSE IF ids.err # ""
           THEN /\ wire' = wire \o << Written(request) >> \o ids.wire
                /\ i' = i
                /\ WriteFailed(ids.err)
           ELSE IF rd.raise
           THEN /\ wire' = wire \o << Written(request) >> \o ids.wire \o << ReadRaised >>
                /\ i' = i
                /\ WriteFailed("SerialException")
           ELSE /\ wire' = wire \o << Written(request) >> \o ids.wire
                               \o << ReadGot(rd.bytes) >>
                /\ IF ~AnswerMatches(rd.bytes, expected_answer)
                   THEN /\ i' = i
                        /\ WriteFailed("Unexpected answer")
                   ELSE /\ i' = NextI(i, current_count)
                        /\ IF NextI(i, current_count) < count
                           THEN /\ pc' = "streaming"
                                /\ UNCHANGED <<dialog, last>>
                           ELSE WriteDone(count)

WriteBegin ==
    \E rd \in LinkOutcomes(PackI(AddWord(ANSWER_WRITECOUNT, TreeLen(tree)))) :
        tree_popup_menu_write_handler(rd)

WriteChunk ==
    \/ \E wFail \in 0..CurrentCount(count, i) :
          tree_write_chunk(wFail, [raise |-> FALSE, bytes |-> << >>])
    \/ \E rd \in { r \in LinkOutcomes(PackI(AddWord(ANSWER_WRITEDATA,
                                                    CurrentCount(count, i)))) : ~r.wfail } :
          tree_write_chunk(-1, rd)

----------------------------------------------------------------------------
(* The add/edit dialog's OK button (data_add_edit.data_edit_update_then_-     *)
(* destroy) and the Delete entry of the popup menu                            *)

data_edit_update_then_destroy(item, data_id_hex, data_text) ==
    LET r == tree_confirm_entry(tree, item, data_id_hex, data_text)
    IN  /\ pc = "idle"
        /\ tree' = r.tree
        /\ dialog' = IF r.ret THEN NoDialog ELSE ShowError("Invalid Data", "")
        /\ last' = Last("confirm", r.ret, item, data_id_hex, data_text, << >>)
        /\ wire' = << >>
        /\ count' = 0
        /\ i' = 0
        /\ UNCHANGED <<serial, serial_connected, pc, data_txt>>

\* item is tree.focus(): a row of the treeview, or nothing
tree_popup_menu_delete_handler(item) ==
    /\ pc = "idle"
    /\ IF item.some
       THEN /\ tree' = TreeDelete(tree, item.iid)
            /\ dialog' = NoDialog
            /\ last' = Last("delete", TRUE, item, << >>, << >>, << >>)
       ELSE /\ tree' = tree
            /\ dialog' = ShowError("Nothing selected", "")
            /\ last' = Last("delete", FALSE, item, << >>, << >>, << >>)
    /\ wire' = << >>
    /\ count' = 0
    /\ i' = 0
    /\ UNCHANGED <<serial, serial_connected, pc, data_txt>>

----------------------------------------------------------------------------
(* App.tree_popup_menu_save_handler.  data.txt is kept as the lines the       *)
(* handler wrote; the file the application was started on is read once, by    *)
(* load_data_from_file, and is not kept.                                      *)

NotWritten == [written |-> FALSE, lines |-> << >>]

WrittenFile(lines) == [written |-> TRUE, lines |-> lines]

\* lines 271-275: the line written for one row
SaveLine(row) ==
    LET values == TreeItemValues(row)
    IN  ZFill(PyStr(values[1]), 8) \o << "," >> \o PyStr(values[2]) \o << "\r", "\n" >>

\* lines 270-275: the lines written for the children
SaveLines(t) == [k \in 1..TreeLen(t) |-> SaveLine(TreeAt(t, k))]

\* openOk tells whether open('data.txt', 'w') succeeds; when it raises the
\* exception is dropped and result stays True, so the same box is shown.  ret of
\* last tells whether the file was written.
tree_popup_menu_save_handler(openOk) ==
    /\ pc = "idle"
    /\ wire' = << >>
    /\ count' = 0
    /\ i' = 0
    /\ UNCHANGED <<tree, serial, serial_connected, pc>>
    /\ IF TooMuchData(TreeLen(tree))
       THEN /\ dialog' = ShowError("Too much data", "")
            /\ last' = Last("save", FALSE, NoItem, << >>, << >>, << >>)
            /\ data_txt' = data_txt
       ELSE /\ dialog' = ShowInfo("Saved lines", TreeLen(tree))
            /\ last' = Last("save", openOk, NoItem, << >>, << >>, << >>)
            /\ data_txt' = IF openOk THEN WrittenFile(SaveLines(tree)) ELSE data_txt

Save == \E openOk \in BOOLEAN : tree_popup_menu_save_handler(openOk)

----------------------------------------------------------------------------
(* Inputs *)

MaxRows == 2

MaxFileLines == 2

MaxCount == 40

Id_00000000 == << "0", "0", "0", "0", "0", "0", "0", "0" >>
Id_00001234 == << "0", "0", "0", "0", "1", "2", "3", "4" >>
Id_0000000a == << "0", "0", "0", "0", "0", "0", "0", "a" >>
Id_NotHex   == << "0", "0", "0", "0", "0", "0", "0", "G" >>
Id_3Bytes   == << "1", "2", " ", "3", "4", " ", "5", "6" >>

\* what the user types into the ID field
IdInputs == { Id_00000000, Id_00001234, Id_0000000a, Id_NotHex, Id_3Bytes, << >> }

\* what the user types into the Data field
LabelInputs == { << >>, << "x" >>, << "0", "7" >> }

\* lines of data.txt
FileLines ==
    { Id_00001234 \o << ",", "x", "\r", "\n" >>,
      Id_00000000 \o << ",", "\r", "\n" >>,
      Id_NotHex \o << ",", "x", "\n" >>,
      << "x", "\n" >> }

Files == UNION { [1..n -> FileLines] : n \in 0..MaxFileLines }

\* the rows of the treeview the user selects
RowItems == { Item(tree.rows[k].iid) : k \in 1..Len(tree.rows) }

\* the item an add/edit dialog was opened for: none (add), a row, or a row that
\* was deleted while the dialog stayed open
DialogItems == { NoItem, Item(Word(0, 4660)) } \cup RowItems

\* the default the add/edit dialog passes to read_last_id_handler: '00000000'
\* when adding, str(values[0]) of the edited row (here the first one) otherwise
Defaults ==
    { Id_00000000 }
    \cup { PyStr(TreeItemValues(tree.rows[k])[1]) : k \in (1..Len(tree.rows)) \cap {1} }

Confirm ==
    \E item \in DialogItems, data_id_hex \in IdInputs, data_text \in LabelInputs :
        /\ item.some \/ Len(tree.rows) < MaxRows
        /\ data_edit_update_then_destroy(item, data_id_hex, data_text)

Delete == \E item \in {NoItem} \cup RowItems : tree_popup_menu_delete_handler(item)

ReadLast ==
    \E default \in Defaults, rd \in LinkOutcomes(PackI(ANSWER_READLAST)), rd2 \in LastIdReads :
        read_last_id_handler(default, rd, rd2)

----------------------------------------------------------------------------
(* The application, started on a data.txt of a few lines, or of more lines    *)
(* than the device takes followed by a few lines                              *)

InitSession ==
    /\ serial = NoSerial
    /\ serial_connected = FALSE
    /\ pc = "idle"
    /\ count = 0
    /\ i = 0
    /\ wire = << >>
    /\ dialog = NoDialog
    /\ last = Last("init", TRUE, NoItem, << >>, << >>, << >>)
    /\ data_txt = NotWritten

\* the treeviews load_data_from_file leaves
InitTrees ==
    { load_lines(Tree(bulk, << >>), lines, 1) :
        bulk \in {0, DEVICES_COUNT_MAX + 1}, lines \in Files }

Init ==
    /\ tree \in InitTrees
    /\ InitSession

Next == Connect \/ WriteBegin \/ WriteChunk \/ ReadLast \/ Confirm \/ Delete

Spec == Init /\ [][Next]_vars

----------------------------------------------------------------------------
(* The session and the upload alone, on a data.txt of 0..MaxCount generated   *)
(* lines: identifiers 0a000001, 0a000002, .. or 00001201, 00001202, .. or     *)
(* 00000001, 00000002, ..                                                     *)

GenLine(prefix, k) ==
    prefix \o HexText(k, 8 - Len(prefix)) \o << ",", "x", "\r", "\n" >>

GenFile(prefix, n) == [k \in 1..n |-> GenLine(prefix, k)]

Prefixes == { << "0", "a" >>, << "0", "0", "0", "0", "1", "2" >>, << "0", "0" >> }

UploadTrees ==
    { load_data_from_file(GenFile(prefix, n)) : n \in 0..MaxCount, prefix \in Prefixes }

InitUpload ==
    /\ tree \in UploadTrees
    /\ InitSession

NextUpload == Connect \/ WriteBegin \/ WriteChunk \/ ReadLast

SpecUpload == InitUpload /\ [][NextUpload]_vars

----------------------------------------------------------------------------
(* The record list and data.txt alone: the dialogs, Delete and Save *)

NextStore == Confirm \/ Delete \/ Save

SpecStore == Init /\ [][NextStore]_vars

----------------------------------------------------------------------------
(* Reading the link events *)

\* the parameter of a 4-byte frame
Param(frame) == frame[3] * 256 + frame[4]

\* the answer frame that acknowledges a request frame
AnswerTo(request) == << 220, request[2], request[3], request[4] >>

IsRequest(e) == e.ev = "write" /\ e.what = "request"

\* the positions of the write-data requests
DataRequests(w) == { p \in 1..Len(w) : IsRequest(w[p]) /\ w[p].bytes[2] = 2 }

\* the position of the last request written before position p, 0 if none
RequestBefore(w, p) ==
    IF \E q \in 1..(p - 1) : IsRequest(w[q])
    THEN CHOOSE q \in 1..(p - 1) :
            IsRequest(w[q]) /\ \A r \in (q + 1)..(p - 1) : ~IsRequest(w[r])
    ELSE 0

\* the event at p is an answer that is short or mismatched, or a transport error
FailedEvent(w, p) ==
    \/ w[p].ev \in {"write_error", "read_error"}
    \/ /\ w[p].ev = "read"
       /\ RequestBefore(w, p) > 0
       /\ w[p].bytes # AnswerTo(w[RequestBefore(w, p)].bytes)

\* the device acknowledged every frame correctly
LinkFaultFree(w) == \A p \in 1..Len(w) : ~FailedEvent(w, p)

\* the identifier bytes written, chunk after chunk
RECURSIVE IdBytesSent(_, _)
IdBytesSent(w, n) ==
    IF n = 0 THEN << >>
    ELSE IdBytesSent(w, n - 1)
         \o (IF w[n].ev = "write" /\ w[n].what = "id" THEN w[n].bytes ELSE << >>)

\* the identifiers of the first n records, 4 bytes each, in list order
RECURSIVE ListIdBytes(_, _)
ListIdBytes(t, n) ==
    IF n = 0 THEN << >> ELSE ListIdBytes(t, n - 1) \o PackI(TreeAt(t, n).iid)

CeilDiv(a, b) == (a + b - 1) \div b

\* the write handler has returned
UploadOver == last.op = "write" /\ pc = "idle"

\* the running or last upload ended on a chunk answer that does not match
ChunkAnswerMismatch ==
    /\ UploadOver
    /\ wire # << >>
    /\ wire[Len(wire)].ev = "read"
    /\ RequestBefore(wire, Len(wire)) \in DataRequests(wire)
    /\ FailedEvent(wire, Len(wire))

----------------------------------------------------------------------------
(* Claims *)

\* C1: for a list of at most 65535 records and a device that acknowledges every
\* frame, the upload sends exactly ceil(count/32) write-data requests with a
\* parameter in 1..32 and the identifiers sent are the record list, 4 bytes each,
\* in order; for count = 0 it announces zero, sends no write-data request and
\* ends in Done.
C1_UploadSendsEveryRecord ==
    (UploadOver /\ SerialUsable(serial) /\ TreeLen(tree) <= DEVICES_COUNT_MAX
        /\ LinkFaultFree(wire))
    => /\ last.ret
       /\ Cardinality(DataRequests(wire)) = CeilDiv(TreeLen(tree), PACKET_MAX_COUNT)
       /\ \A p \in DataRequests(wire) : Param(wire[p].bytes) \in 1..PACKET_MAX_COUNT
       /\ IdBytesSent(wire, Len(wire)) = ListIdBytes(tree, TreeLen(tree))
       /\ TreeLen(tree) = 0
            => /\ wire = << Written(PackI(COMMAND_WRITECOUNT)),
                           ReadGot(PackI(ANSWER_WRITECOUNT)) >>
               /\ dialog = ShowInfo("Written lines", 0)

\* C2 (as amended): when a chunk's answer does not match, the handler ends in
\* failure with the error box 'Communication error: Unexpected answer', which
\* carries no count; its local i then is the number of records of the chunks the
\* device acknowledged.
C2_MismatchedChunkFails ==
    ChunkAnswerMismatch
    => /\ ~last.ret
       /\ dialog = ShowError("Communication error: ", "Unexpected answer")
       /\ i = PACKET_MAX_COUNT * (Cardinality(DataRequests(wire)) - 1)
       /\ i < count

\* 40 records, the second chunk answered with parameter 7 instead of 8: i = 32
C2_Witness ==
    /\ ChunkAnswerMismatch
    /\ count = 40
    /\ wire[Len(wire)] = ReadGot(<< 220, 2, 0, 7 >>)
    /\ i = 32

\* C2 as stated: the failure reports the number of records already acknowledged
C2_FailureReportsAcknowledged == ChunkAnswerMismatch => dialog.n = i

\* C3: within one upload nothing is written or read after the first answer that
\* is short or mismatched or the first transport error: that event is the last
\* one on the link and the handler has ended in failure.
C3_NothingAfterFailure ==
    last.op = "write"
    => \A p \in 1..Len(wire) :
          FailedEvent(wire, p) => p = Len(wire) /\ pc = "idle" /\ ~last.ret

\* the first chunk of a longer list failed: no second chunk was sent
C3_Witness ==
    /\ UploadOver
    /\ count > PACKET_MAX_COUNT
    /\ Cardinality(DataRequests(wire)) = 1
    /\ FailedEvent(wire, Len(wire))

\* C4: the upload of more than 65535 records over an open session fails with
\* 'Too much data' and writes nothing to the link.
C4_TooMuchDataTouchesNothing ==
    (UploadOver /\ TreeLen(tree) > DEVICES_COUNT_MAX)
    => /\ wire = << >>
       /\ ~last.ret
       /\ SerialUsable(serial) => dialog = ShowError("Too much data", "")

C4_Witness ==
    /\ UploadOver
    /\ TreeLen(tree) > DEVICES_COUNT_MAX
    /\ SerialUsable(serial)
    /\ dialog = ShowError("Too much data", "")

\* a connect that got as far as the handshake
HandshakeDone == last.op = "connect" /\ wire # << >>

\* what the caller of a failed handshake is left with
FailedConnect ==
    /\ ~last.ret
    /\ ~serial_connected
    /\ serial = NoSerial
    /\ dialog = NoDialog

\* C5 (as amended): the handshake sends CD 00 00 00 and succeeds if and only if
\* exactly DC 00 00 00 is read back; a short read, 4 other bytes and a transport
\* error all end the same way, with the session disconnected and nothing shown.
C5_HandshakeOutcome ==
    HandshakeDone
    => /\ wire[1] \in { Written(<< 205, 0, 0, 0 >>), WriteRaised }
       /\ serial_connected
            <=> (Len(wire) = 2 /\ wire[2] = ReadGot(<< 220, 0, 0, 0 >>))
       /\ serial_connected => last.ret /\ serial = OpenSerial
       /\ ~serial_connected => FailedConnect

C5_Witness ==
    /\ HandshakeDone
    /\ serial_connected
    /\ wire = << Written(<< 205, 0, 0, 0 >>), ReadGot(<< 220, 0, 0, 0 >>) >>

\* C5 as stated: a handshake that failed on a short read leaves the caller with
\* something else than one that failed on 4 mismatching bytes
C5_TimeoutDistinguishable ==
    (HandshakeDone /\ Len(wire) = 2 /\ wire[2].ev = "read" /\ Len(wire[2].bytes) < 4)
    => ~FailedConnect

\* C6: read_last returns an identifier only when DC 03 00 00 and then 4 further
\* bytes were read, the identifier being those 4 bytes; after a short read it
\* returns its default and nothing built from the bytes that arrived.
C6_ReadLastNeedsFullReads ==
    last.op = "read_last"
    => /\ last.ret
            => /\ Len(wire) = 3
               /\ wire[2] = ReadGot(<< 220, 3, 0, 0 >>)
               /\ wire[3].ev = "read"
               /\ Len(wire[3].bytes) = 4
               /\ last.out = BytesHex(wire[3].bytes)
       /\ (\E p \in 1..Len(wire) : wire[p].ev = "read" /\ Len(wire[p].bytes) < 4)
            => last.out = last.hex

\* the typed text is 8 hex digits
ValidIdText(hex) == Len(hex) = 8 /\ FromHex(hex).ok /\ Len(FromHex(hex).bytes) = 4

\* the identifier 8 hex digits stand for
IdOf(hex) == TkIid(UnpackI(FromHex(hex).bytes).value)

\* the positions of the rows of the treeview that carry this identifier: the
\* generated row of that number, if it is listed, and the rows after them
RowsWith(iid) ==
    { k \in {BulkNumber(tree, iid)} \ {0} : TreeAt(tree, k).iid = iid }
    \cup { tree.bulk + k : k \in { j \in 1..Len(tree.rows) : tree.rows[j].iid = iid } }

\* C7: add_or_replace with the identifier 0 or an empty label is rejected as
\* invalid, and no record with identifier 0 or an empty label is in the store.
C7_InvalidRecordRejected ==
    /\ (last.op = "confirm"
          /\ (last.text = << >>
                \/ (ValidIdText(last.hex) /\ IdOf(last.hex) = Word(0, 0))))
       => ~last.ret /\ dialog = ShowError("Invalid Data", "")
    /\ \A k \in 1..Len(tree.rows) :
          tree.rows[k].iid # Word(0, 0) /\ tree.rows[k].text # << >>

\* the OK button was pressed with a non-zero identifier and a non-empty label
ValidConfirm ==
    /\ last.op = "confirm"
    /\ ValidIdText(last.hex)
    /\ IdOf(last.hex) # Word(0, 0)
    /\ last.text # << >>

\* C8 (as amended): when tree_confirm_entry accepts a valid (id, label) the store
\* lists exactly one record with that id and its label is the given one; an add
\* of an id that a record already holds is rejected, and the store still lists
\* exactly one record with that id.
C8_AcceptedIsListedOnce ==
    ValidConfirm
    => /\ last.ret
            => /\ Cardinality(RowsWith(IdOf(last.hex))) = 1
               /\ \A k \in RowsWith(IdOf(last.hex)) :
                      /\ TreeAt(tree, k).text = last.text
                      /\ TreeAt(tree, k).hex = last.hex
       /\ (~last.ret /\ ~last.item.some)
            => Cardinality(RowsWith(IdOf(last.hex))) = 1

\* a record was replaced: the edit of a row, accepted, with a new label
C8_Witness ==
    /\ ValidConfirm
    /\ last.ret
    /\ last.item = Item(IdOf(last.hex))
    /\ Len(tree.rows) = 2
    /\ last.text = << "0", "7" >>

\* C8 as stated: after add_or_replace of a valid (id, label) the store lists
\* exactly one record with that id and its label is the given label
C8_ListedOnceWithLabel ==
    ValidConfirm
    => /\ Cardinality(RowsWith(IdOf(last.hex))) = 1
       /\ \A k \in RowsWith(IdOf(last.hex)) : TreeAt(tree, k).text = last.text

\* C9 (as amended): the store is not capped at 65535 records: an accepted add
\* makes the list one record longer whatever its length.
C9_AddGrowsAnyList ==
    [][ (last'.op = "confirm" /\ ~last'.item.some /\ last'.ret)
          => TreeLen(tree') = TreeLen(tree) + 1 ]_vars

\* a record was added to a list that already held more than 65535
C9_Witness ==
    /\ last.op = "confirm"
    /\ ~last.item.some
    /\ last.ret
    /\ TreeLen(tree) > DEVICES_COUNT_MAX + 1

\* C9 as stated: the store never holds more than 65535 records
C9_SizeBounded == TreeLen(tree) <= DEVICES_COUNT_MAX

\* the query was made without a session, or its request could not be written,
\* or its answer frame was short, wrong or raised, or the second read raised
ReadLastFailed ==
    /\ last.op = "read_last"
    /\ Len(wire) < 3 \/ wire[Len(wire)].ev = "read_error"

\* C10 (as amended): a failed upload always shows an error box; a connect that
\* fails to open the port or fails the handshake shows nothing, and a read-last
\* that fails shows nothing and returns its default.
C10_OnlyUploadReportsErrors ==
    /\ (UploadOver /\ ~last.ret) => dialog.kind = "error"
    /\ (last.op = "connect" /\ ~last.ret /\ last.text # << >>) => dialog = NoDialog
    /\ ReadLastFailed => ~last.ret /\ dialog = NoDialog /\ last.out = last.hex

\* an upload that failed on a transport error, and says so
C10_Witness ==
    /\ UploadOver
    /\ ~last.ret
    /\ wire # << >>
    /\ wire[Len(wire)].ev = "read_error"
    /\ dialog = ShowError("Communication error: ", "SerialException")

\* C10 as stated: every failed connect, upload and read-last shows an error
C10_EveryErrorReported ==
    (last.op \in {"connect", "write", "read_last"} /\ pc = "idle" /\ ~last.ret)
    => dialog.kind = "error"

\* a write or a read on the link raised during the running (or last) handler
HasTransportError(w) ==
    \E p \in 1..Len(w) : w[p].ev \in {"write_error", "read_error"}

\* C11 (as amended): a transport error during the handshake leaves the session
\* disconnected with its port closed, as after an explicit disconnect; a
\* transport error during upload or read-last leaves the session as it was,
\* marked connected with its port open.
C11_OnlyHandshakeDestroysSession ==
    /\ (last.op = "connect" /\ HasTransportError(wire))
          => ~serial_connected /\ ~SerialUsable(serial)
    /\ (last.op \in {"write", "read_last"} /\ HasTransportError(wire))
          => serial_connected /\ SerialUsable(serial)

\* an upload whose write raised, and the session is still connected
C11_Witness ==
    /\ UploadOver
    /\ wire # << >>
    /\ wire[Len(wire)].ev = "write_error"
    /\ serial_connected
    /\ SerialUsable(serial)

\* C11 as stated: after a transport error during handshake, upload or read-last
\* the session is no longer connected and its port is closed
C11_SessionDestroyedOnError ==
    (last.op \in {"connect", "write", "read_last"} /\ HasTransportError(wire))
    => ~serial_connected /\ ~SerialUsable(serial)

\* the (id, label) pairs a treeview lists
Pairs(t) == { << TreeAt(t, k).iid, TreeAt(t, k).text >> : k \in 1..TreeLen(t) }

\* every record has a non-zero identifier and a non-empty label
AllValid(t) ==
    \A k \in 1..TreeLen(t) : TreeAt(t, k).iid # Word(0, 0) /\ TreeAt(t, k).text # << >>

\* C12: after the save handler wrote a store of valid records to data.txt,
\* loading that file into an empty treeview lists the same set of (id, label)
\* pairs.
C12_SaveLoadRoundTrip ==
    (last.op = "save" /\ last.ret /\ AllValid(tree))
    => Pairs(load_data_from_file(data_txt.lines)) = Pairs(tree)

\* C13: the connect/disconnect handler (handshake), the write handler (upload)
\* and read_last_id_handler never change the record list: after every step of
\* one of them, successful or failed, the treeview is what it was before.
C13_SerialHandlersKeepStore ==
    [][ last'.op \in {"connect", "disconnect", "write", "read_last"} => tree' = tree ]_vars

\* an upload that sent every record of a store of two records
C13_Witness ==
    /\ UploadOver
    /\ last.ret
    /\ TreeLen(tree) = 2
    /\ Cardinality(DataRequests(wire)) = 1

\* the number of records of the chunks sent before the write-data request at p
ChunkStart(w, p) == PACKET_MAX_COUNT * Cardinality({ q \in DataRequests(w) : q < p })

\* the position of the read that follows the write-data request at p, 0 if none
ChunkRead(w, p) ==
    IF \E q \in (p + 1)..Len(w) : w[q].ev = "read" /\ RequestBefore(w, q) = p
    THEN CHOOSE q \in (p + 1)..Len(w) : w[q].ev = "read" /\ RequestBefore(w, q) = p
    ELSE 0

\* C14: every chunk is the write-data request with parameter n (1 <= n <= 32)
\* followed by the n identifiers of the chunk, each as its 4 bytes, big-endian,
\* in list order, and only then the read of the answer; unless the link raises
\* the read is reached, and the chunk counts as sent only when the answer is the
\* write-data answer with parameter n.
C14_ChunkOnTheWire ==
    last.op = "write"
    => \A p \in DataRequests(wire) :
          LET n == Param(wire[p].bytes)
              k == ChunkStart(wire, p)
              q == ChunkRead(wire, p)
          IN  /\ n \in 1..PACKET_MAX_COUNT
              /\ (pc = "idle" /\ ~HasTransportError(wire)) => q > 0
              /\ q > 0
                   => /\ q = p + n + 1
                      /\ \A j \in 1..n :
                            wire[p + j] = WrittenId(PackI(TreeAt(tree, k + j).iid))
              /\ (q > 0 /\ (q < Len(wire) \/ last.ret))
                   => wire[q] = ReadGot(AnswerTo(wire[p].bytes))

\* some request frame of w has no completed read after it
AwaitingAnswer(w) ==
    \E p \in 1..Len(w) :
        IsRequest(w[p]) /\ \A q \in (p + 1)..Len(w) : w[q].ev # "read"

\* between any two request frames of w the answer of the earlier one was read
AnsweredInTurn(w) ==
    \A p, q \in 1..Len(w) :
        (p < q /\ IsRequest(w[p]) /\ IsRequest(w[q]))
        => \E r \in (p + 1)..(q - 1) : w[r].ev = "read"

\* C15: the exchange is strictly request-then-answer over any sequence of
\* handshake, upload and read-last: within a handler there is a completed read
\* between any two request frames, and no handler writes a request frame on a
\* session on which the request of an earlier handler still awaits its answer.
C15_RequestThenAnswer ==
    [][ /\ AnsweredInTurn(wire')
        /\ (pc = "idle" /\ AwaitingAnswer(wire) /\ SerialUsable(serial)
              /\ serial' = serial)
           => \A p \in 1..Len(wire') : ~IsRequest(wire'[p]) ]_vars

\* The upload with its loop running on: the handler is ordinary sequential code
\* and every serial.read returns within SERIAL_TIMEOUT_S or raises, so a turn
\* of the while loop that can be taken is taken.
SpecUploadFair == InitUpload /\ [][NextUpload]_vars /\ WF_vars(WriteChunk)

\* C16: every upload terminates in exactly one of Done ('Written' box) and
\* Failed (error box): the chunk loop always comes to its end, every chunk that
\* keeps it running strictly increases the number of records sent, which never
\* passes the count, and an upload that is over is not resumed: the loop is only
\* entered from the start, with nothing sent.
C16_UploadTerminates ==
    /\ (pc = "streaming") ~> (pc = "idle")
    /\ [][ (pc = "streaming" /\ pc' = "streaming") => (i < i' /\ i' < count') ]_vars
    /\ [][ (pc = "idle" /\ pc' = "streaming") => i' = 0 ]_vars
    /\ [](UploadOver => /\ last.ret <=> dialog.kind = "info"
                        /\ ~last.ret <=> dialog.kind = "error")

\* the upload of 40 records ran through both chunks and ended in Done
C16_Witness ==
    /\ UploadOver
    /\ last.ret
    /\ count = 40
    /\ i = 40
    /\ dialog = ShowInfo("Written lines", 40)

\* the place of the row with this identifier among the rows after the generated ones
PositionOf(t, iid) == CHOOSE k \in 1..Len(t.rows) : t.rows[k].iid = iid

\* the rows other than those with an identifier of S, in list order
Others(t, S) == SelectSeq(t.rows, LAMBDA r : r.iid \notin S)

\* the identifiers the dialog or the Delete entry just worked on: the selected
\* item and the identifier typed
Touched ==
    (IF last'.item.some THEN {last'.item.iid} ELSE {})
    \cup (IF last'.op = "confirm" /\ ValidIdText(last'.hex) THEN {IdOf(last'.hex)} ELSE {})

\* C17: the list order is insertion order and is stable: an add, an edit and a
\* delete leave the other records in their order, an accepted edit leaves the
\* record where it was, an accepted add appends it at the end, Delete removes
\* the selected row only, and Delete with nothing selected changes nothing.
C17_OrderIsStable ==
    [][ last'.op \in {"confirm", "delete"}
        => /\ tree'.bulk = tree.bulk
           /\ Others(tree', Touched) = Others(tree, Touched)
           /\ (last'.op = "confirm" /\ last'.ret /\ last'.item.some)
                => /\ Len(tree'.rows) = Len(tree.rows)
                   /\ PositionOf(tree', IdOf(last'.hex)) = PositionOf(tree, last'.item.iid)
           /\ (last'.op = "confirm" /\ last'.ret /\ ~last'.item.some)
                => tree'.rows = Append(tree.rows, Row(IdOf(last'.hex), last'.hex, last'.text))
           /\ (last'.op = "delete" /\ last'.item.some)
                => /\ Len(tree'.rows) = Len(tree.rows) - 1
                   /\ ~TreeExists(tree', last'.item.iid)
           /\ (last'.op = "delete" /\ ~last'.item.some) => tree' = tree ]_vars

\* the first of two records was given another identifier and is still the first
C17_Witness ==
    /\ last.op = "confirm"
    /\ last.ret
    /\ last.item.some
    /\ Len(tree.rows) = 2
    /\ last.item.iid # IdOf(last.hex)
    /\ tree.rows[1].iid = IdOf(last.hex)

----------------------------------------------------------------------------
(* The frames alone: the request and the expected answer the handlers build   *)
(* as struct.pack('>I', COMMAND + n) and struct.pack('>I', ANSWER + n), for   *)
(* each of the four commands and every n the parameter field holds.  count    *)
(* holds n and i the number of the command.                                   *)

Commands == << COMMAND_PINGPONG, COMMAND_WRITECOUNT, COMMAND_WRITEDATA, COMMAND_READLAST >>

Answers == << ANSWER_PINGPONG, ANSWER_WRITECOUNT, ANSWER_WRITEDATA, ANSWER_READLAST >>

BuildFrames ==
    /\ last.op = "init"
    /\ \E sub \in 0..3, n \in 0..DEVICES_COUNT_MAX :
        /\ wire' = << Written(PackI(AddWord(Commands[sub + 1], n))),
                      ReadGot(PackI(AddWord(Answers[sub + 1], n))) >>
        /\ count' = n
        /\ i' = sub
        /\ last' = Last("frame", TRUE, NoItem, << >>, << >>, << >>)
        /\ UNCHANGED <<tree, serial, serial_connected, pc, dialog, data_txt>>

InitFrame ==
    /\ tree = Tree(0, << >>)
    /\ InitSession

SpecFrame == InitFrame /\ [][BuildFrames]_vars

\* C18: for every subcommand in 0..3 and every parameter in 0..65535 the request
\* frame is the 4 bytes CD, subcommand, parameter high byte, parameter low byte
\* and the expected answer the same with DC: the addition of the parameter
\* never carries into the subcommand or the magic byte, and the frame decodes
\* back to the subcommand and the parameter.
C18_FrameRoundTrip ==
    last.op = "frame"
    => /\ wire[1].bytes = << 205, i, count \div 256, count % 256 >>
       /\ wire[2].bytes = << 220, i, count \div 256, count % 256 >>
       /\ Param(wire[1].bytes) = count
       /\ Param(wire[2].bytes) = count
       /\ wire[2].bytes = AnswerTo(wire[1].bytes)

\* the largest parameter on the last command: CD 03 FF FF
C18_Witness ==
    /\ last.op = "frame"
    /\ i = 3
    /\ count = DEVICES_COUNT_MAX
    /\ wire[1].bytes = << 205, 3, 255, 255 >>

\* the ping request and its exact answer, as the handshake leaves them on the link
VerifiedHandshake(w) ==
    w = << Written(PackI(COMMAND_PINGPONG)), ReadGot(PackI(ANSWER_PINGPONG)) >>

\* a write-count, write-data or read-last request was written
DeviceRequest(w) ==
    \E p \in 1..Len(w) : IsRequest(w[p]) /\ w[p].bytes[2] \in {1, 2, 3}

\* C19: whenever no handler is running the session is marked connected if and
\* only if it holds an open port; a port is only ever taken into the session by
\* a connect whose handshake read the exact ping answer; and a write-count,
\* write-data or read-last request is only written on a session that is marked
\* connected and holds its open port.
C19_ConnectedIffVerified ==
    /\ [](pc = "idle" => /\ serial_connected <=> SerialUsable(serial)
                         /\ ~serial_connected <=> serial = NoSerial)
    /\ [][ (serial' # serial /\ SerialUsable(serial'))
             => /\ last'.op = "connect"
                /\ ~SerialUsable(serial)
                /\ VerifiedHandshake(wire') ]_vars
    /\ [][ (wire' # wire /\ DeviceRequest(wire'))
             => /\ serial_connected /\ SerialUsable(serial)
                /\ serial' = serial ]_vars

\* a read-last query went out on the connected session and was answered
C19_Witness ==
    /\ last.op = "read_last"
    /\ last.ret
    /\ DeviceRequest(wire)
    /\ serial_connected
    /\ SerialUsable(serial)

\* C20: whenever an add or an edit is rejected (tree_confirm_entry returns False
\* and 'Invalid Data' is shown) the record list is exactly what it was before
\* the call.
C20_RejectedLeavesStore ==
    [][ (last'.op = "confirm" /\ ~last'.ret)
          => (tree' = tree /\ dialog' = ShowError("Invalid Data", "")) ]_vars

====
